---- MODULE Spec2Model ----
(***************************************************************************)
(* Ruzzle board solver (ruzzle.py): Tile, Board and the prefix-pruned      *)
(* depth-first word search of Board.possible_words / Board._explore.       *)
(*                                                                         *)
(* Positions are pairs <<row, col>> (Python position[0] is position[1]     *)
(* here).  Words are sequences of one-character strings.  The recursive    *)
(* generator _explore is modelled by an explicit stack of frames, one per  *)
(* active call; iterating a Python set picks its elements in an order the  *)
(* language does not fix, so each iteration picks any remaining element.   *)
(***************************************************************************)
EXTENDS Integers, Sequences, FiniteSets, TLC

VARIABLES
    pc,          \* "new" | "search" | "done" | "error" | "scored"
    GRID_SIZE,   \* Board.GRID_SIZE
    tiles,       \* the flat tile list handed to Board.__init__
    vocabulary,  \* Vocabulary.words: the set of indexed words
    grid,        \* Board.grid: position -> tile
    cursor,      \* number of start cells already taken by possible_words
    stack,       \* the active _explore calls, outermost first
    words,       \* the dict `words` of possible_words: word -> <<path, points>>
    result,      \* the list returned by possible_words
    prev,        \* list returned by an earlier call on the same board
    lastPath,    \* argument of the latest Board.points call
    lastPoints   \* value returned by the latest Board.points call

vars == <<pc, GRID_SIZE, tiles, vocabulary, grid, cursor, stack, words,
          result, prev, lastPath, lastPoints>>

----------------------------------------------------------------------------
(* Bounds of the model *)

MaxGridSize == 5      \* boards of grid size 2..MaxGridSize
MaxPathLen == 3       \* length of the paths Board.points is applied to

----------------------------------------------------------------------------
(* vars.py: letter values and tile colours *)

\* (a, c and t as in the documented scoring example; z stands for any letter
\* that occurs in no word and takes no part in a score)
CHAR_POINTS == [ch \in {"a", "c", "t", "z"} |->
    IF ch = "c" THEN 3 ELSE IF ch = "z" THEN 10 ELSE 1]

CHAR_COLOURS == {"", "Y", "G", "B", "R"}

Letters == DOMAIN CHAR_POINTS

----------------------------------------------------------------------------
(* Generic helpers *)

Range(s) == {s[i] : i \in 1..Len(s)}

Last(s) == s[Len(s)]

RECURSIVE SumOver(_, _)
SumOver(f, S) ==
    IF S = {} THEN 0
    ELSE LET x == CHOOSE y \in S : TRUE IN f[x] + SumOver(f, S \ {x})

RECURSIVE Pow(_, _)
Pow(b, n) == IF n = 0 THEN 1 ELSE b * Pow(b, n - 1)

\* every enumeration of a finite set as a sequence without repetition
Orderings(S) ==
    {f \in [1..Cardinality(S) -> S] : \A i, j \in 1..Cardinality(S) : f[i] = f[j] => i = j}

----------------------------------------------------------------------------
(* Tile *)

Tile(char, colour) == [char |-> char, colour |-> colour]

\* Tile.points
TilePoints(t) ==
    IF t.colour = "G" THEN CHAR_POINTS[t.char] * 2
    ELSE IF t.colour = "B" THEN CHAR_POINTS[t.char] * 3
    ELSE CHAR_POINTS[t.char]

is_double_word(t) == t.colour = "Y"

is_triple_word(t) == t.colour = "R"

\* Tile.neighbours, for a tile whose position is `position`
neighbours(position) ==
    (IF position[1] >= 1 THEN {<<position[1] - 1, position[2]>>} ELSE {}) \cup
    (IF position[1] <= 2 THEN {<<position[1] + 1, position[2]>>} ELSE {}) \cup
    (IF position[2] >= 1 THEN {<<position[1], position[2] - 1>>} ELSE {}) \cup
    (IF position[2] <= 2 THEN {<<position[1], position[2] + 1>>} ELSE {}) \cup
    (IF position[1] >= 1 /\ position[2] >= 1
        THEN {<<position[1] - 1, position[2] - 1>>} ELSE {}) \cup
    (IF position[1] >= 1 /\ position[2] <= 2
        THEN {<<position[1] - 1, position[2] + 1>>} ELSE {}) \cup
    (IF position[1] <= 2 /\ position[2] >= 1
        THEN {<<position[1] + 1, position[2] - 1>>} ELSE {}) \cup
    (IF position[1] <= 2 /\ position[2] <= 2
        THEN {<<position[1] + 1, position[2] + 1>>} ELSE {})

----------------------------------------------------------------------------
(* Vocabulary: the two trie queries the search makes *)

IsPrefixOf(p, w) == Len(p) <= Len(w) /\ SubSeq(w, 1, Len(p)) = p

\* bool(self.vocabulary.words.keys(word_form)): some key starts with word_form
HasPrefix(word_form) == \E w \in vocabulary : IsPrefixOf(word_form, w)

\* word_form in self.vocabulary.words
Contains(word_form) == word_form \in vocabulary

----------------------------------------------------------------------------
(* Board *)

\* Board.__init__: tile number pos (from 0) goes to (pos / N, pos % N)
BuildGrid(ts, n) ==
    [p \in {<<(i - 1) \div n, (i - 1) % n>> : i \in 1..Len(ts)} |->
        [char |-> ts[p[1] * n + p[2] + 1].char,
         colour |-> ts[p[1] * n + p[2] + 1].colour,
         position |-> p]]

\* Board.tile succeeds: both assertions pass and the key is in the dict
TileOk(position) ==
    /\ position[1] < GRID_SIZE
    /\ position[2] < GRID_SIZE
    /\ position \in DOMAIN grid

\* path2word joining the letters in the wrong order
path2wordReversed(path) ==
    [i \in 1..Len(path) |-> grid[path[Len(path) + 1 - i]].char]

\* Board.path2word
path2word(path) == [i \in 1..Len(path) |-> grid[path[i]].char]

\* points applying each kind of word bonus once, however many tiles carry it
pointsBonusOnce(path) ==
    LET total == SumOver([i \in 1..Len(path) |-> TilePoints(grid[path[i]])],
                         1..Len(path))
        n_double_w == Cardinality({i \in 1..Len(path) : is_double_word(grid[path[i]])})
        n_triple_w == Cardinality({i \in 1..Len(path) : is_triple_word(grid[path[i]])})
    IN total * (IF n_double_w > 0 THEN 2 ELSE 1) * (IF n_triple_w > 0 THEN 3 ELSE 1)

\* Board.points
points(path) ==
    LET total == SumOver([i \in 1..Len(path) |-> TilePoints(grid[path[i]])],
                         1..Len(path))
        n_double_w == Cardinality({i \in 1..Len(path) : is_double_word(grid[path[i]])})
        n_triple_w == Cardinality({i \in 1..Len(path) : is_triple_word(grid[path[i]])})
    IN total * Pow(2, n_double_w) * Pow(3, n_triple_w)

\* explorable neighbours without the visited positions taken out
ExplorableAll(nbrs, path) == nbrs

\* tile.neighbours() - set(path)
Explorable(nbrs, path) == nbrs \ Range(path)

\* _explore recursing whatever the vocabulary says
CanRecurseAlways(word_form) == TRUE

\* the test guarding the recursive call inside the loop of _explore
CanRecurse(word_form) == HasPrefix(word_form)

\* the frame of a call _explore(tile at position, path)
Frame(position, path) ==
    LET p == Append(path, position)
    IN [path |-> p,
        nbrs |-> neighbours(grid[position].position),
        rem  |-> Explorable(neighbours(grid[position].position), p)]

Top == stack[Len(stack)]

Pop == SubSeq(stack, 1, Len(stack) - 1)

\* words[wrd_form] = (wrd_path, wrd_points)
Record(ws, wrd_path) ==
    LET wrd_form == path2word(wrd_path)
        wrd_points == points(wrd_path)
    IN [w \in DOMAIN ws \cup {wrd_form} |->
            IF w = wrd_form THEN [path |-> wrd_path, points |-> wrd_points]
            ELSE ws[w]]

\* words.items() in one of the orders a dict may enumerate them
Items(ws, order) ==
    [i \in 1..Len(order) |->
        [word |-> order[i], path |-> ws[order[i]].path, points |-> ws[order[i]].points]]

\* where a stable descending sort puts x among the already sorted s that followed it
RECURSIVE InsertDesc(_, _)
InsertDesc(x, s) ==
    IF s = <<>> THEN <<x>>
    ELSE IF Head(s).points <= x.points THEN <<x>> \o s
    ELSE <<Head(s)>> \o InsertDesc(x, Tail(s))

\* the sort without reverse=True: stable, ascending points
RECURSIVE InsertAsc(_, _)
InsertAsc(x, s) ==
    IF s = <<>> THEN <<x>>
    ELSE IF Head(s).points >= x.points THEN <<x>> \o s
    ELSE <<Head(s)>> \o InsertAsc(x, Tail(s))

RECURSIVE SortAscending(_)
SortAscending(items) ==
    IF items = <<>> THEN <<>>
    ELSE InsertAsc(Head(items), SortAscending(Tail(items)))

\* words.sort(key=lambda x: x[1][1], reverse=True): stable, descending points
RECURSIVE SortByPoints(_)
SortByPoints(items) ==
    IF items = <<>> THEN <<>>
    ELSE InsertDesc(Head(items), SortByPoints(Tail(items)))

----------------------------------------------------------------------------
(* Inputs *)

GridSizes == 2..MaxGridSize

WordPool == {<<"a", "t">>, <<"c", "a">>, <<"c", "a", "t">>}

\* a word with more letters than any board of the model has cells
LongWord == [i \in 1..(MaxGridSize * MaxGridSize + 1) |-> "a"]

Vocabularies == (SUBSET WordPool) \cup {{LongWord}}

WordLetters == {"a", "c", "t"}

\* colours of the search boards: none, a word bonus, a letter bonus
SearchColours == {"", "Y", "B"}

\* a letter no word of the vocabularies contains
Filler == Tile("z", "")

\* the cells of a search board that vary: the bottom-right corner and the two
\* cells beside it; every other cell holds the filler tile
VariedCells(n) == {<<n - 1, n - 1>>, <<n - 1, n - 2>>, <<n - 2, n - 1>>}

\* search boards: any word letters on the varied cells, any colour on one of them
BoardsOf(n) ==
    {b \in [VariedCells(n) -> {Tile(ch, co) : ch \in WordLetters, co \in SearchColours}] :
        \A p \in VariedCells(n) : b[p].colour # "" => p = <<n - 2, n - 1>>}

\* boards handed over with one tile too few or too many
UniformBoardsOf(n) == {[p \in VariedCells(n) |-> Tile(ch, "")] : ch \in WordLetters}

\* the flat tile list of board b, len tiles long
TileList(b, n, len) ==
    [i \in 1..len |->
        LET p == <<(i - 1) \div n, (i - 1) % n>>
        IN IF p \in DOMAIN b THEN b[p] ELSE Filler]

\* boards for scoring: the first MaxPathLen cells of a 4 x 4 board take any
\* letter of ScoreLetters and any colour
ScoreLetters == {"a", "c"}

ScoreTileLists ==
    {[i \in 1..16 |-> IF i <= MaxPathLen THEN f[i] ELSE Filler] :
        f \in [1..MaxPathLen -> {Tile(ch, co) : ch \in ScoreLetters, co \in CHAR_COLOURS}]}

\* the path over the first k cells, in order
ScorePath(k) == [i \in 1..k |-> <<(i - 1) \div 4, (i - 1) % 4>>]

----------------------------------------------------------------------------
(* Actions *)

Fresh ==
    /\ pc = "new"
    /\ grid = <<>>
    /\ cursor = 0
    /\ stack = <<>>
    /\ words = <<>>
    /\ result = <<>>
    /\ prev = <<>>
    /\ lastPath = <<>>
    /\ lastPoints = 0

Init ==
    /\ GRID_SIZE \in GridSizes
    /\ vocabulary \in Vocabularies
    /\ \/ \E b \in BoardsOf(GRID_SIZE) :
             tiles = TileList(b, GRID_SIZE, GRID_SIZE * GRID_SIZE)
       \/ \E b \in UniformBoardsOf(GRID_SIZE), skew \in {-1, 1} :
             tiles = TileList(b, GRID_SIZE, GRID_SIZE * GRID_SIZE + skew)
    /\ Fresh

\* Board.__init__
Construct ==
    /\ pc = "new"
    /\ grid' = BuildGrid(tiles, GRID_SIZE)
    /\ pc' = "search"
    /\ UNCHANGED <<GRID_SIZE, tiles, vocabulary, cursor, stack, words, result,
                   prev, lastPath, lastPoints>>

\* possible_words: the next (row, col) of the double loop starts a search
StartCell ==
    /\ pc = "search"
    /\ stack = <<>>
    /\ cursor < GRID_SIZE * GRID_SIZE
    /\ LET pos == <<cursor \div GRID_SIZE, cursor % GRID_SIZE>>
       IN IF TileOk(pos)
          THEN /\ stack' = <<Frame(pos, <<>>)>>
               /\ cursor' = cursor + 1
               /\ pc' = pc
          ELSE /\ pc' = "error"
               /\ UNCHANGED <<stack, cursor>>
    /\ UNCHANGED <<GRID_SIZE, tiles, vocabulary, grid, words, result, prev,
                   lastPath, lastPoints>>

\* _explore: the loop over explorable_neighbours when the test of its body
\* is false: no iteration does anything
ExploreSkip ==
    /\ pc = "search"
    /\ stack # <<>>
    /\ Top.rem # {}
    /\ ~CanRecurse(path2word(Top.path))
    /\ stack' = [stack EXCEPT ![Len(stack)].rem = {}]
    /\ UNCHANGED <<pc, GRID_SIZE, tiles, vocabulary, grid, cursor, words, result,
                   prev, lastPath, lastPoints>>

\* _explore: one iteration of the loop whose test is true: the recursive call
ExploreNext ==
    /\ pc = "search"
    /\ stack # <<>>
    /\ Top.rem # {}
    /\ CanRecurse(path2word(Top.path))
    /\ \E pos \in Top.rem :
          IF TileOk(pos)
          THEN /\ stack' = Append([stack EXCEPT ![Len(stack)].rem = @ \ {pos}],
                                  Frame(pos, Top.path))
               /\ pc' = pc
          ELSE /\ pc' = "error"
               /\ UNCHANGED stack
    /\ UNCHANGED <<GRID_SIZE, tiles, vocabulary, grid, cursor, words, result,
                   prev, lastPath, lastPoints>>

\* _explore: after the loop the word is in the vocabulary: the path is yielded
\* up to possible_words, which stores it, and the call returns
ExploreYield ==
    /\ pc = "search"
    /\ stack # <<>>
    /\ Top.rem = {}
    /\ Contains(path2word(Top.path))
    /\ words' = Record(words, Top.path)
    /\ stack' = Pop
    /\ UNCHANGED <<pc, GRID_SIZE, tiles, vocabulary, grid, cursor, result, prev,
                   lastPath, lastPoints>>

\* _explore: after the loop the word is not in the vocabulary: the call returns
ExploreReturn ==
    /\ pc = "search"
    /\ stack # <<>>
    /\ Top.rem = {}
    /\ ~Contains(path2word(Top.path))
    /\ stack' = Pop
    /\ UNCHANGED <<pc, GRID_SIZE, tiles, vocabulary, grid, cursor, words, result,
                   prev, lastPath, lastPoints>>

\* possible_words: the double loop is over; items(), sort, return
Finish ==
    /\ pc = "search"
    /\ stack = <<>>
    /\ cursor = GRID_SIZE * GRID_SIZE
    /\ \E order \in Orderings(DOMAIN words) :
          result' = SortByPoints(Items(words, order))
    /\ pc' = "done"
    /\ UNCHANGED <<GRID_SIZE, tiles, vocabulary, grid, cursor, stack, words, prev,
                   lastPath, lastPoints>>

Next ==
    \/ Construct
    \/ StartCell
    \/ ExploreSkip
    \/ ExploreNext
    \/ ExploreYield
    \/ ExploreReturn
    \/ Finish

Spec == Init /\ [][Next]_vars

\* the search is one sequential computation: it keeps running until it
\* returns or raises
InitLive == Init /\ vocabulary \in {WordPool, {LongWord}}

LiveSpec == InitLive /\ [][Next]_vars /\ WF_vars(Next)

----------------------------------------------------------------------------
(* A second call of possible_words on the same board *)

InitTwoRuns ==
    /\ GRID_SIZE = 4
    /\ vocabulary = WordPool
    /\ \E b \in BoardsOf(GRID_SIZE) :
          tiles = TileList(b, GRID_SIZE, GRID_SIZE * GRID_SIZE)
    /\ Fresh

\* possible_words is called again once the first call has returned
CallAgain ==
    /\ pc = "done"
    /\ prev = <<>>
    /\ prev' = <<result>>
    /\ words' = <<>>
    /\ result' = <<>>
    /\ cursor' = 0
    /\ pc' = "search"
    /\ UNCHANGED <<GRID_SIZE, tiles, vocabulary, grid, stack, lastPath, lastPoints>>

NextTwoRuns ==
    \/ Next
    \/ CallAgain

SpecTwoRuns == InitTwoRuns /\ [][NextTwoRuns]_vars

----------------------------------------------------------------------------
(* Board.points on its own *)

InitPoints ==
    /\ GRID_SIZE = 4
    /\ vocabulary = {}
    /\ tiles \in ScoreTileLists
    /\ Fresh

\* board.points(path)
CallPoints ==
    /\ pc = "search"
    /\ \E k \in 0..MaxPathLen :
          /\ lastPath' = ScorePath(k)
          /\ lastPoints' = points(ScorePath(k))
    /\ pc' = "scored"
    /\ UNCHANGED <<GRID_SIZE, tiles, vocabulary, grid, cursor, stack, words,
                   result, prev>>

NextPoints ==
    \/ Construct
    \/ CallPoints

SpecPoints == InitPoints /\ [][NextPoints]_vars

----------------------------------------------------------------------------
(* What the claims speak of, stated without the search *)

Abs(x) == IF x < 0 THEN -x ELSE x

InGrid(n) == {<<r, c>> : r \in 0..(n - 1), c \in 0..(n - 1)}

\* 8-adjacency: Chebyshev distance 1
Adjacent(p, q) == p # q /\ Abs(p[1] - q[1]) <= 1 /\ Abs(p[2] - q[2]) <= 1

ChebyshevNeighbours(p, n) == {q \in InGrid(n) : Adjacent(p, q)}

NoRepeat(path) == \A i, j \in 1..Len(path) : path[i] = path[j] => i = j

Spells(path, w) ==
    /\ Len(path) = Len(w)
    /\ \A i \in 1..Len(path) : path[i] \in DOMAIN grid /\ grid[path[i]].char = w[i]

\* the valid paths spelling the first k letters of w
RECURSIVE PathsSpelling(_, _)
PathsSpelling(w, k) ==
    IF k = 1
    THEN {<<p>> : p \in {q \in InGrid(GRID_SIZE) : grid[q].char = w[1]}}
    ELSE UNION {{Append(path, p) :
                    p \in {q \in ChebyshevNeighbours(Last(path), GRID_SIZE) :
                              q \notin Range(path) /\ grid[q].char = w[k]}} :
                path \in PathsSpelling(w, k - 1)}

ValidPaths(w) == PathsSpelling(w, Len(w))

Entries == 1..Len(result)

\* u comes strictly before v in lexicographic order
Ord(ch) == IF ch = "a" THEN 1 ELSE IF ch = "c" THEN 3 ELSE IF ch = "t" THEN 20 ELSE 26

LexLess(u, v) ==
    \E k \in 1..(Len(v)) :
        /\ \A i \in 1..(k - 1) : i <= Len(u) /\ u[i] = v[i]
        /\ k - 1 <= Len(u)
        /\ (k > Len(u) \/ Ord(u[k]) < Ord(v[k]))

Terminated == pc \in {"done", "error"}

----------------------------------------------------------------------------
(* The claims *)

\* C1: every word of the output carries the highest score among all the
\* valid paths that spell it, with a path that achieves it.
C1_MaxScoreRetained ==
    pc = "done" =>
        \A i \in Entries :
            /\ points(result[i].path) = result[i].points
            /\ \A path \in ValidPaths(result[i].word) : points(path) <= result[i].points

\* C2: every vocabulary word that some valid path spells is in the output,
\* exactly once.
C2_Complete ==
    pc = "done" =>
        \A w \in vocabulary :
            ValidPaths(w) # {} => Cardinality({i \in Entries : result[i].word = w}) = 1

\* C3: every stored or returned (word, path) has the letters along the path
\* spell the word, and the path visits no position twice.
C3_PathsSpellWords ==
    /\ \A w \in DOMAIN words : Spells(words[w].path, w) /\ NoRepeat(words[w].path)
    /\ \A i \in Entries : Spells(result[i].path, result[i].word) /\ NoRepeat(result[i].path)

\* C3 witness: a finished search that returned "cat" along a path of three cells
C3_Witness ==
    /\ pc = "done"
    /\ \E i \in Entries : Len(result[i].path) = 3 /\ result[i].word = <<"c", "a", "t">>

\* C4: Board.points is the sum of letter value times letter multiplier
\* (G 2, B 3, otherwise 1), times 2 for every Y tile of the path and times 3
\* for every R tile of the path.
LetterMultiplier(t) == IF t.colour = "G" THEN 2 ELSE IF t.colour = "B" THEN 3 ELSE 1

WordMultiplier(t) == IF t.colour = "Y" THEN 2 ELSE IF t.colour = "R" THEN 3 ELSE 1

RECURSIVE ClaimedBase(_)
ClaimedBase(path) ==
    IF path = <<>> THEN 0
    ELSE CHAR_POINTS[grid[Head(path)].char] * LetterMultiplier(grid[Head(path)])
         + ClaimedBase(Tail(path))

RECURSIVE ClaimedFactor(_)
ClaimedFactor(path) ==
    IF path = <<>> THEN 1
    ELSE WordMultiplier(grid[Head(path)]) * ClaimedFactor(Tail(path))

C4_PointsFormula ==
    pc = "scored" => lastPoints = ClaimedBase(lastPath) * ClaimedFactor(lastPath)

\* C4 witness: a scored path with two Y tiles and a B tile on the letter c
C4_Witness ==
    /\ pc = "scored"
    /\ Len(lastPath) = 3
    /\ grid[lastPath[1]].colour = "Y"
    /\ grid[lastPath[2]].colour = "Y"
    /\ grid[lastPath[3]].colour = "B"
    /\ grid[lastPath[3]].char = "c"
    /\ lastPoints = (1 + 1 + 9) * 4

\* C5 as stated: the output is in descending score order and entries of equal
\* score are in ascending lexicographic order of their words.
C5_SortedWithTieBreak ==
    pc = "done" =>
        \A i, j \in Entries :
            i < j =>
                \/ result[i].points > result[j].points
                \/ /\ result[i].points = result[j].points
                   /\ LexLess(result[i].word, result[j].word)

\* C5 as amended: the output is in descending (non-increasing) score order.
C5_SortedByScore ==
    pc = "done" =>
        \A i, j \in Entries : i < j => result[i].points >= result[j].points

\* C5 witness: an output of three words, two of them with equal score and in
\* reverse lexicographic order
C5_Witness ==
    /\ pc = "done"
    /\ Len(result) = 3
    /\ result[1].points > result[2].points
    /\ result[2].points = result[3].points
    /\ LexLess(result[3].word, result[2].word)

\* C6: the neighbour set of the tile at a position is exactly the set of
\* in-grid positions at Chebyshev distance 1 from it.
C6_NeighboursExact ==
    \A i \in 1..Len(stack) :
        stack[i].nbrs = ChebyshevNeighbours(Last(stack[i].path), GRID_SIZE)

\* C7: a board exists only for a tile list of GRID_SIZE * GRID_SIZE tiles,
\* and its grid holds one tile at each in-grid position and none elsewhere.
C7_BoardIsDense ==
    pc # "new" =>
        /\ Len(tiles) = GRID_SIZE * GRID_SIZE
        /\ DOMAIN grid = InGrid(GRID_SIZE)

\* C8: a second call of possible_words on the same board and vocabulary
\* returns the same words with the same scores in the same order.
C8_SameOutputTwice ==
    (pc = "done" /\ prev # <<>>) =>
        /\ Len(result) = Len(prev[1])
        /\ \A i \in Entries :
              /\ result[i].word = prev[1][i].word
              /\ result[i].points = prev[1][i].points

\* C9 as stated: _explore is never entered with a path of two or more
\* positions whose word is not a prefix of a vocabulary word.
C9_EnteredOnlyWithPrefix ==
    \A i \in 1..Len(stack) :
        Len(stack[i].path) >= 2 => HasPrefix(path2word(stack[i].path))

\* C9 as amended: _explore is never entered with a path of two or more
\* positions unless the word of the path without its last position is a
\* prefix of a vocabulary word.
C9_ParentWordIsPrefix ==
    \A i \in 1..Len(stack) :
        Len(stack[i].path) >= 2 =>
            HasPrefix(path2word(SubSeq(stack[i].path, 1, Len(stack[i].path) - 1)))

\* C9 witness: a call entered from a path whose word is a prefix, with a path
\* whose own word is not
C9_Witness ==
    /\ Len(stack) = 3
    /\ HasPrefix(path2word(stack[2].path))
    /\ ~HasPrefix(path2word(stack[3].path))

\* C10: no path of a search branch and no nesting of _explore calls exceeds
\* GRID_SIZE * GRID_SIZE, and possible_words comes to an end.
C10_Bounded ==
    /\ Len(stack) <= GRID_SIZE * GRID_SIZE
    /\ \A i \in 1..Len(stack) :
          Len(stack[i].path) <= GRID_SIZE * GRID_SIZE /\ NoRepeat(stack[i].path)

C10_Terminates == []C10_Bounded /\ <>Terminated

\* C10 witness: a search of a 4 x 4 board that found three words and returned
C10_Witness ==
    /\ pc = "done"
    /\ GRID_SIZE = 4
    /\ cursor = GRID_SIZE * GRID_SIZE
    /\ Len(result) = 3
    /\ \E i \in Entries : Len(result[i].path) = 3

====
